---- MODULE Spec2Model ----
(***************************************************************************)
(* FIAStorage, the tiered store of FIA DuckDB files (storage.py in the     *)
(* storage-strategy document): local disk -> S3/R2 -> FIA DataMart, with   *)
(* an access-time eviction of the local directory.  Callers are request    *)
(* handlers that run get_db_path and preload on a FIAStorage instance;     *)
(* each caller's position in the code is its pc.                           *)
(***************************************************************************)
EXTENDS Integers, Sequences, FiniteSets, TLC

\* ---------------------------------------------------------------- bounds
\* Largest value of the logical clock that stamps st_atime.
MaxClock == 2
\* Largest configured max_local_bytes (in units of the smallest artifact).
MaxQuota == 3
\* Longest list handed to preload.
MaxBatch == 2

\* ------------------------------------------------------------ the inputs
\* Callers (request handlers / the startup hook).
Threads == {"t1", "t2"}
\* The one caller of the sequential runs.
SeqThreads == {"t1"}
\* FIAStorage instances: the module's singleton and, for the comparison of
\* two configurations, a second instance constructed with other arguments.
Instances == {"storage", "twin"}

\* State codes after state.upper(); XX is a code the DataMart does not have.
Keys == {"NC", "RI", "OR", "XX"}
ValidKeys == {"NC", "RI", "OR"}
\* What callers pass as `state`.
Spellings == {"nc", "NC", "RI", "or", "XX"}

\* str.upper() on the spellings above.
Upper(s) ==
    CASE s = "nc" -> "NC"
      [] s = "NC" -> "NC"
      [] s = "RI" -> "RI"
      [] s = "or" -> "OR"
      [] s = "OR" -> "OR"
      [] OTHER    -> "XX"

\* Size of the DuckDB file the DataMart produces for a state.
ArtifactSize(k) ==
    CASE k = "NC" -> 2
      [] OTHER    -> 1

\* ------------------------------------------------------------- the state
VARIABLES
    local,            \* local[i][k]: the file local_dir/<k>.duckdb of instance i
    temp,             \* temp[i][k]: the file pyfia.download leaves in local_dir.parent/temp
    remote,           \* remote[k]: the object <s3_prefix>/<k>.duckdb of the bucket
    s3_bucket,        \* s3_bucket[i]: TRUE when instance i was given a bucket
    max_local_bytes,  \* max_local_bytes[i]
    clock,            \* the time st_atime is stamped with
    inst,             \* inst[t]: the instance caller t calls
    pc,               \* pc[t]: caller t's position
    state,            \* state[t]: the (upper-cased) argument of the running get_db_path
    files,            \* files[t]: _enforce_cache_limit's list `files`
    total_size,       \* total_size[t]: _enforce_cache_limit's `total_size`
    tried,            \* tried[t]: the tiers the running call contacted, with outcomes
    result,           \* result[t]: what the finished call gave its caller
    batch,            \* batch[t]: the list preload was called with (<<>>: not in preload)
    todo,             \* todo[t]: the states preload has not yet reached
    report,           \* report[t]: <<state, outcome>> of each get_db_path preload ran
    sync,             \* the two instances started the running call from equal Local tiers
    \* the web front end (one browser tab)
    isAuthenticated,  \* useAuthStore: isAuthenticated
    isLoading,        \* useAuthStore: isLoading
    session,          \* the API holds a valid session cookie of this browser
    requests,         \* requests[r]: "due" (its effect has not run), "sent", "idle"
    pathname,         \* usePathname()
    chatParam,        \* the URL carries ?chat=true
    returnTo,         \* the URL carries ?return=chat
    showChat,         \* HomeContent: showChat
    isHydrated,       \* HomeContent: isHydrated
    savedShowChat,    \* localStorage["askfia_show_chat"]: "null", "true" or "false"
    \* the site-password gate and the conversation kept by the browser
    sitePassword,     \* process.env.SITE_PASSWORD ("": not configured)
    pyfia_auth,       \* localStorage["pyfia_auth"]
    gateAuth,         \* PasswordGate: isAuthenticated ("null", "true", "false")
    issued,           \* the tokens /api/auth/login answered a correct password with
    lastVerify,       \* the last request /api/auth/verify answered, and its answer
    logins,           \* Date.now() of the login route, counted in answered logins
    messages,         \* useChat: messages
    stored,           \* localStorage["askfia_conversation"]
    hydrated,         \* useConversationStorage: isHydrated
    lastSaved         \* the list saveMessages was last given since clearConversation

pageVars == <<isAuthenticated, isLoading, session, requests, pathname,
              chatParam, returnTo, showChat, isHydrated, savedShowChat>>

storageVars == <<local, temp, remote, s3_bucket, max_local_bytes, clock,
                 inst, pc, state, files, total_size, tried, result, batch, todo,
                 report, sync>>

clientVars == <<sitePassword, pyfia_auth, gateAuth, issued, lastVerify, logins,
                messages, stored, hydrated, lastSaved>>

vars == <<storageVars, pageVars, clientVars>>

cfgVars == <<s3_bucket, max_local_bytes, inst>>
passVars == <<files, total_size>>
preloadVars == <<batch, todo, report>>

\* A file: absent, or present with st_size and st_atime.
NoFile == [exists |-> FALSE, size |-> 0, atime |-> 0]
File(sz, at) == [exists |-> TRUE, size |-> sz, atime |-> at]

\* The instance caller t calls, and its local_path for the running call.
Self(t) == inst[t]
LocalPath(t) == local[Self(t)][state[t]]

\* The *.duckdb files of an instance's local_dir.
Live(i) == {k \in Keys : local[i][k].exists}

RECURSIVE SumSizes(_, _)
SumSizes(i, S) ==
    IF S = {} THEN 0
    ELSE LET k == CHOOSE x \in S : TRUE
         IN  local[i][k].size + SumSizes(i, S \ {k})

\* Bytes in local_dir.
Usage(i) == SumSizes(i, Live(i))

\* ------------------------------------------------------------------ Init
\* After FIAStorage(...): an empty local_dir, the configuration fixed.
InitCommon ==
    /\ local = [i \in Instances |-> [k \in Keys |-> NoFile]]
    /\ temp = [i \in Instances |-> [k \in Keys |-> NoFile]]
    /\ clock = 0
    /\ pc = [t \in Threads |-> "idle"]
    /\ state = [t \in Threads |-> ""]
    /\ files = [t \in Threads |-> <<>>]
    /\ total_size = [t \in Threads |-> 0]
    /\ tried = [t \in Threads |-> <<>>]
    /\ result = [t \in Threads |-> "none"]
    /\ batch = [t \in Threads |-> <<>>]
    /\ todo = [t \in Threads |-> <<>>]
    /\ report = [t \in Threads |-> <<>>]
    /\ sync = FALSE

\* ------------------------------------------------- get_db_path, by steps
callVars == <<state, tried, result>>

\* `return local_path` / an exception leaving get_db_path: the caller has res.
EndCall(t, res) ==
    /\ pc' = [pc EXCEPT ![t] = "done"]
    /\ result' = [result EXCEPT ![t] = res]

Record(t, tier, outcome) ==
    tried' = [tried EXCEPT ![t] = Append(@, <<tier, outcome>>)]

\* get_db_path(state): state = state.upper(); local_path = local_dir / f"{state}.duckdb"
Call(t, s) ==
    /\ pc[t] = "idle"
    /\ pc' = [pc EXCEPT ![t] = "check"]
    /\ state' = [state EXCEPT ![t] = Upper(s)]
    /\ tried' = [tried EXCEPT ![t] = <<>>]
    /\ UNCHANGED <<local, temp, remote, cfgVars, pageVars, clientVars, clock, passVars, result,
                   preloadVars, sync>>

\* Tier 1: if local_path.exists()
CheckLocal(t) ==
    /\ pc[t] = "check"
    /\ IF LocalPath(t).exists
         THEN /\ pc' = [pc EXCEPT ![t] = "touch"]
              /\ Record(t, "local", "hit")
         ELSE /\ pc' = [pc EXCEPT ![t] = "s3"]
              /\ Record(t, "local", "miss")
    /\ UNCHANGED <<local, temp, remote, cfgVars, pageVars, clientVars, clock, passVars, state, result,
                   preloadVars, sync>>

\* path.touch(): stamps the file, and creates it (empty) when it is not there.
Touched(f) ==
    IF f.exists THEN File(f.size, clock) ELSE File(0, clock)

\* self._touch(local_path); return local_path
Touch(t) ==
    /\ pc[t] = "touch"
    /\ local' = [local EXCEPT ![Self(t)][state[t]] = Touched(@)]
    /\ EndCall(t, "path")
    /\ UNCHANGED <<temp, remote, cfgVars, pageVars, clientVars, clock, passVars, state, tried,
                   preloadVars, sync>>

\* What s3.download_file can do for an object: "hit" writes local_path, "miss"
\* is the store's not-found answer, "fail" any other exception (timeout,
\* connection refused, credentials).
S3Outcomes(k) ==
    {"fail"} \cup (IF remote[k].exists THEN {"hit"} ELSE {"miss"})

\* What _download_from_s3 returns to get_db_path: True after the download,
\* False from `except NoSuchKey` and False from `except Exception`.
DownloadFromS3(o) == o = "hit"

\* S3Download with the result of _download_from_s3 ignored: after a hit the
\* call still goes on to the DataMart.
S3DownloadFallsThrough(t, o) ==
    /\ pc[t] = "s3"
    /\ IF ~s3_bucket[Self(t)]
         THEN /\ o = "miss"
              /\ UNCHANGED <<local, tried>>
         ELSE /\ o \in S3Outcomes(state[t])
              /\ Record(t, "remote", o)
              /\ IF o = "hit"
                   THEN local' = [local EXCEPT ![Self(t)][state[t]] =
                                     File(remote[state[t]].size, clock)]
                   ELSE UNCHANGED local
    /\ pc' = [pc EXCEPT ![t] = "fia"]
    /\ UNCHANGED <<temp, remote, cfgVars, pageVars, clientVars, clock, passVars, state, result,
                   preloadVars, sync>>

\* S3Download with a download that creates local_path before it learns that
\* the object is not there, and leaves the empty file behind.
S3DownloadLeavesFile(t, o) ==
    /\ pc[t] = "s3"
    /\ IF ~s3_bucket[Self(t)]
         THEN /\ o = "miss"
              /\ pc' = [pc EXCEPT ![t] = "fia"]
              /\ UNCHANGED <<local, tried>>
         ELSE /\ o \in S3Outcomes(state[t])
              /\ Record(t, "remote", o)
              /\ IF o = "hit"
                   THEN /\ local' = [local EXCEPT ![Self(t)][state[t]] =
                                        File(remote[state[t]].size, clock)]
                        /\ pc' = [pc EXCEPT ![t] = "glob"]
                   ELSE /\ pc' = [pc EXCEPT ![t] = "fia"]
                        /\ local' = [local EXCEPT ![Self(t)][state[t]] = File(0, clock)]
    /\ UNCHANGED <<temp, remote, cfgVars, pageVars, clientVars, clock, passVars, state, result,
                   preloadVars, sync>>

\* S3Download without the `except Exception` of _download_from_s3: a transport
\* failure leaves get_db_path as an exception.
S3DownloadRaises(t, o) ==
    /\ pc[t] = "s3"
    /\ IF ~s3_bucket[Self(t)]
         THEN /\ o = "miss"
              /\ pc' = [pc EXCEPT ![t] = "fia"]
              /\ UNCHANGED <<local, tried, result>>
         ELSE /\ o \in S3Outcomes(state[t])
              /\ Record(t, "remote", o)
              /\ IF o = "hit"
                   THEN /\ local' = [local EXCEPT ![Self(t)][state[t]] =
                                        File(remote[state[t]].size, clock)]
                        /\ pc' = [pc EXCEPT ![t] = "glob"]
                        /\ UNCHANGED result
                   ELSE IF o = "fail"
                     THEN /\ EndCall(t, "raised")
                          /\ UNCHANGED local
                     ELSE /\ pc' = [pc EXCEPT ![t] = "fia"]
                          /\ UNCHANGED <<local, result>>
    /\ UNCHANGED <<temp, remote, cfgVars, pageVars, clientVars, clock, passVars, state,
                   preloadVars, sync>>

\* Tier 2: if self.s3_bucket and self._download_from_s3(state, local_path)
S3Download(t, o) ==
    /\ pc[t] = "s3"
    /\ IF ~s3_bucket[Self(t)]
         THEN /\ o = "miss"
              /\ pc' = [pc EXCEPT ![t] = "fia"]
              /\ UNCHANGED <<local, tried>>
         ELSE /\ o \in S3Outcomes(state[t])
              /\ Record(t, "remote", o)
              /\ IF DownloadFromS3(o)
                   THEN /\ local' = [local EXCEPT ![Self(t)][state[t]] =
                                        File(remote[state[t]].size, clock)]
                        /\ pc' = [pc EXCEPT ![t] = "glob"]
                   ELSE /\ pc' = [pc EXCEPT ![t] = "fia"]
                        /\ UNCHANGED local
    /\ UNCHANGED <<temp, remote, cfgVars, pageVars, clientVars, clock, passVars, state, result,
                   preloadVars, sync>>

\* Tier 3: _download_from_fia calls pyfia.download(state, dir=.../temp)
FiaStart(t) ==
    /\ pc[t] = "fia"
    /\ pc' = [pc EXCEPT ![t] = "fia_dl"]
    /\ UNCHANGED <<local, temp, remote, cfgVars, pageVars, clientVars, clock, passVars, callVars,
                   preloadVars, sync>>

\* What the DataMart can answer for a state code: the file, no such state,
\* or no answer (unreachable, timeout).
OriginOutcomes(k) ==
    {"fail"} \cup (IF k \in ValidKeys THEN {"ok"} ELSE {"notfound"})

\* FiaFinish with the download written straight to local_path: a download that
\* fails part-way leaves what it had written there.
FiaFinishInPlace(t, o) ==
    /\ pc[t] = "fia_dl"
    /\ o \in OriginOutcomes(state[t])
    /\ Record(t, "origin", o)
    /\ IF o = "ok"
         THEN /\ temp' = [temp EXCEPT ![Self(t)][state[t]] =
                             File(ArtifactSize(state[t]), clock)]
              /\ pc' = [pc EXCEPT ![t] = "rename"]
              /\ UNCHANGED <<local, result>>
         ELSE /\ EndCall(t, "raised")
              /\ local' = [local EXCEPT ![Self(t)][state[t]] = File(0, clock)]
              /\ UNCHANGED temp
    /\ UNCHANGED <<remote, cfgVars, pageVars, clientVars, clock, passVars, state,
                   preloadVars, sync>>

\* pyfia.download returns temp_path, or raises.
FiaFinish(t, o) ==
    /\ pc[t] = "fia_dl"
    /\ o \in OriginOutcomes(state[t])
    /\ Record(t, "origin", o)
    /\ IF o = "ok"
         THEN /\ temp' = [temp EXCEPT ![Self(t)][state[t]] =
                             File(ArtifactSize(state[t]), clock)]
              /\ pc' = [pc EXCEPT ![t] = "rename"]
              /\ UNCHANGED result
         ELSE /\ EndCall(t, "raised")
              /\ UNCHANGED temp
    /\ UNCHANGED <<local, remote, cfgVars, pageVars, clientVars, clock, passVars, state,
                   preloadVars, sync>>

\* Path(temp_path).rename(local_path)
FiaRename(t) ==
    /\ pc[t] = "rename"
    /\ IF temp[Self(t)][state[t]].exists
         THEN /\ local' = [local EXCEPT ![Self(t)][state[t]] = temp[Self(t)][state[t]]]
              /\ temp' = [temp EXCEPT ![Self(t)][state[t]] = NoFile]
              /\ pc' = [pc EXCEPT ![t] = "glob"]
              /\ UNCHANGED result
         ELSE /\ EndCall(t, "raised")
              /\ UNCHANGED <<local, temp>>
    /\ UNCHANGED <<remote, cfgVars, pageVars, clientVars, clock, passVars, state, tried,
                   preloadVars, sync>>

\* What the exception that leaves get_db_path tells its caller: it is the
\* exception pyfia.download raised, passed on untouched, so it carries the
\* DataMart's failure and nothing of the tiers tried before.
ExceptionOf(t) == <<tried[t][Len(tried[t])]>>

\* ------------------------------------------- _enforce_cache_limit, by steps
\* The orders a list of the set S can have.
Orders(S) ==
    IF S = {} THEN {<<>>}
    ELSE {s \in [1..Cardinality(S) -> S] :
             \A a, b \in 1..Cardinality(S) : a # b => s[a] # s[b]}

Range(s) == {s[n] : n \in DOMAIN s}

\* SortedByAtime with the sort left out: glob's order, which is any order.
Unsorted(i, S) == Orders(S)

\* files.sort(key=lambda f: f.stat().st_atime): oldest first; list.sort is
\* stable, so files of equal st_atime keep glob's order, which is any order.
SortedByAtime(i, S) ==
    {s \in Orders(S) :
        \A a, b \in DOMAIN s :
            a < b => local[i][s[a]].atime <= local[i][s[b]].atime}

\* A stat() of a listed file that is no longer there raises FileNotFoundError.
Gone(t) == \E k \in Range(files[t]) : ~local[Self(t)][k].exists

\* OverLimit with the loop stopping one unit early.
OverLimitSlack(t) == total_size[t] > max_local_bytes[Self(t)] + 1

\* total_size > self.max_local_bytes
OverLimit(t) == total_size[t] > max_local_bytes[Self(t)]

\* _enforce_cache_limit returns.
PassEnd(t) ==
    /\ pc' = [pc EXCEPT ![t] = "enforced"]
    /\ files' = [files EXCEPT ![t] = <<>>]
    /\ total_size' = [total_size EXCEPT ![t] = 0]
    /\ UNCHANGED result

\* An exception leaves _enforce_cache_limit and get_db_path.
PassRaise(t) ==
    /\ EndCall(t, "raised")
    /\ files' = [files EXCEPT ![t] = <<>>]
    /\ total_size' = [total_size EXCEPT ![t] = 0]

\* files = list(self.local_dir.glob("*.duckdb"))
EnforceGlob(t) ==
    /\ pc[t] = "glob"
    /\ pc' = [pc EXCEPT ![t] = "sum"]
    /\ files' = [files EXCEPT ![t] = CHOOSE s \in Orders(Live(Self(t))) : TRUE]
    /\ UNCHANGED <<local, temp, remote, cfgVars, pageVars, clientVars, clock, total_size, callVars,
                   preloadVars, sync>>

\* total_size = sum(f.stat().st_size for f in files); if total_size <= max: return
EnforceSum(t) ==
    /\ pc[t] = "sum"
    /\ IF Gone(t)
         THEN PassRaise(t)
         ELSE LET total == SumSizes(Self(t), Range(files[t])) IN
              IF total <= max_local_bytes[Self(t)]
                THEN PassEnd(t)
                ELSE /\ pc' = [pc EXCEPT ![t] = "sort"]
                     /\ total_size' = [total_size EXCEPT ![t] = total]
                     /\ UNCHANGED <<files, result>>
    /\ UNCHANGED <<local, temp, remote, cfgVars, pageVars, clientVars, clock, state, tried,
                   preloadVars, sync>>

\* files.sort(key=lambda f: f.stat().st_atime)
EnforceSort(t, s) ==
    /\ pc[t] = "sort"
    /\ s \in SortedByAtime(Self(t), Range(files[t]))
    /\ IF Gone(t)
         THEN PassRaise(t)
         ELSE /\ files' = [files EXCEPT ![t] = s]
              /\ pc' = [pc EXCEPT ![t] = "loop"]
              /\ UNCHANGED <<total_size, result>>
    /\ UNCHANGED <<local, temp, remote, cfgVars, pageVars, clientVars, clock, state, tried,
                   preloadVars, sync>>

\* while total_size > max and files: oldest = files.pop(0);
\*     size = oldest.stat().st_size; oldest.unlink(); total_size -= size
EnforceLoop(t) ==
    /\ pc[t] = "loop"
    /\ IF OverLimit(t) /\ files[t] # <<>>
         THEN LET oldest == Head(files[t]) IN
              IF ~local[Self(t)][oldest].exists
                THEN /\ PassRaise(t)
                     /\ UNCHANGED local
                ELSE /\ local' = [local EXCEPT ![Self(t)][oldest] = NoFile]
                     /\ files' = [files EXCEPT ![t] = Tail(@)]
                     /\ total_size' = [total_size EXCEPT ![t] =
                                          @ - local[Self(t)][oldest].size]
                     /\ UNCHANGED <<pc, result>>
         ELSE /\ PassEnd(t)
              /\ UNCHANGED local
    /\ UNCHANGED <<temp, remote, cfgVars, pageVars, clientVars, clock, state, tried,
                   preloadVars, sync>>

\* The mark a caller's record carries where it repeated its call.
Again == <<"call", "again">>

\* The running call was satisfied by the DataMart (the pass ran at line 124,
\* not 118).
FromOrigin(t) ==
    \E n \in DOMAIN tried[t] :
        /\ tried[t][n] = <<"origin", "ok">>
        /\ \A m \in DOMAIN tried[t] : tried[t][m] = Again => m < n

\* After the pass: `return local_path` (line 119), or `if self.s3_bucket:` (127)
Enforced(t) ==
    /\ pc[t] = "enforced"
    /\ IF FromOrigin(t) /\ s3_bucket[Self(t)]
         THEN /\ pc' = [pc EXCEPT ![t] = "upload"]
              /\ UNCHANGED result
         ELSE EndCall(t, "path")
    /\ UNCHANGED <<local, temp, remote, cfgVars, pageVars, clientVars, clock, passVars, state, tried,
                   preloadVars, sync>>

\* s3.upload_file(str(local_path), bucket, s3_key) stores the file when it is
\* there and the store answers; any exception is caught.
UploadOutcomes(t) ==
    {"fail"} \cup (IF LocalPath(t).exists THEN {"ok"} ELSE {})

\* Upload without the `except Exception` of _upload_to_s3: a failed upload
\* leaves get_db_path as an exception.
UploadRaises(t, o) ==
    /\ pc[t] = "upload"
    /\ o \in UploadOutcomes(t)
    /\ Record(t, "upload", o)
    /\ IF o = "ok"
         THEN /\ remote' = [remote EXCEPT ![state[t]] = File(LocalPath(t).size, 0)]
              /\ EndCall(t, "path")
         ELSE /\ UNCHANGED remote
              /\ EndCall(t, "raised")
    /\ UNCHANGED <<local, temp, cfgVars, pageVars, clientVars, clock, passVars, state,
                   preloadVars, sync>>

\* self._upload_to_s3(state, local_path); return local_path
Upload(t, o) ==
    /\ pc[t] = "upload"
    /\ o \in UploadOutcomes(t)
    /\ Record(t, "upload", o)
    /\ IF o = "ok"
         THEN remote' = [remote EXCEPT ![state[t]] = File(LocalPath(t).size, 0)]
         ELSE UNCHANGED remote
    /\ EndCall(t, "path")
    /\ UNCHANGED <<local, temp, cfgVars, pageVars, clientVars, clock, passVars, state,
                   preloadVars, sync>>

\* ----------------------------------------------------------------- preload
\* The lists preload is called with: distinct spellings of distinct states.
Batches ==
    {b \in UNION {[1..n -> Spellings] : n \in 1..MaxBatch} :
        \A a, c \in DOMAIN b : a # c => Upper(b[a]) # Upper(b[c])}

\* The caller has its answer; it is ready for its next call.
Finish(t) ==
    /\ \/ pc[t] = "done" /\ batch[t] = <<>>
       \/ pc[t] = "preloaded"
    /\ pc' = [pc EXCEPT ![t] = "idle"]
    /\ state' = [state EXCEPT ![t] = ""]
    /\ tried' = [tried EXCEPT ![t] = <<>>]
    /\ result' = [result EXCEPT ![t] = "none"]
    /\ batch' = [batch EXCEPT ![t] = <<>>]
    /\ report' = [report EXCEPT ![t] = <<>>]
    /\ UNCHANGED <<local, temp, remote, cfgVars, pageVars, clientVars, clock, passVars, todo, sync>>

\* preload(states)
Preload(t, b) ==
    /\ pc[t] = "idle"
    /\ pc' = [pc EXCEPT ![t] = "preload"]
    /\ batch' = [batch EXCEPT ![t] = b]
    /\ todo' = [todo EXCEPT ![t] = b]
    /\ UNCHANGED <<local, temp, remote, cfgVars, pageVars, clientVars, clock, passVars, callVars,
                   report, sync>>

\* PreloadNext with get_db_path's `state = state.upper()` left out.
PreloadNextRaw(t) ==
    /\ pc[t] = "preload"
    /\ IF todo[t] # <<>>
         THEN /\ pc' = [pc EXCEPT ![t] = "check"]
              /\ state' = [state EXCEPT ![t] = Head(todo[t])]
              /\ todo' = [todo EXCEPT ![t] = Tail(@)]
         ELSE /\ pc' = [pc EXCEPT ![t] = "preloaded"]
              /\ state' = [state EXCEPT ![t] = ""]
              /\ UNCHANGED todo
    /\ tried' = [tried EXCEPT ![t] = <<>>]
    /\ result' = [result EXCEPT ![t] = "none"]
    /\ UNCHANGED <<local, temp, remote, cfgVars, pageVars, clientVars, clock, passVars, batch,
                   report, sync>>

\* for state in states: try: self.get_db_path(state)
PreloadNext(t) ==
    /\ pc[t] = "preload"
    /\ IF todo[t] # <<>>
         THEN /\ pc' = [pc EXCEPT ![t] = "check"]
              /\ state' = [state EXCEPT ![t] = Upper(Head(todo[t]))]
              /\ todo' = [todo EXCEPT ![t] = Tail(@)]
         ELSE /\ pc' = [pc EXCEPT ![t] = "preloaded"]
              /\ state' = [state EXCEPT ![t] = ""]
              /\ UNCHANGED todo
    /\ tried' = [tried EXCEPT ![t] = <<>>]
    /\ result' = [result EXCEPT ![t] = "none"]
    /\ UNCHANGED <<local, temp, remote, cfgVars, pageVars, clientVars, clock, passVars, batch,
                   report, sync>>

\* get_db_path returned, or: except Exception as e: logger.warning(...)
PreloadCatch(t) ==
    /\ pc[t] = "done"
    /\ batch[t] # <<>>
    /\ pc' = [pc EXCEPT ![t] = "preload"]
    /\ report' = [report EXCEPT ![t] = Append(@, <<state[t], result[t]>>)]
    /\ UNCHANGED <<local, temp, remote, cfgVars, pageVars, clientVars, clock, passVars, callVars,
                   batch, todo, sync>>

\* The caller asks again for the state it was just given: get_db_path(state)
\* a second time, with nothing else of its own in between.
Asked(t) == \E n \in DOMAIN tried[t] : tried[t][n] = Again

Recall(t) ==
    /\ pc[t] = "done"
    /\ batch[t] = <<>>
    /\ result[t] = "path"
    /\ ~Asked(t)
    /\ pc' = [pc EXCEPT ![t] = "check"]
    /\ tried' = [tried EXCEPT ![t] = Append(@, Again)]
    /\ result' = [result EXCEPT ![t] = "none"]
    /\ UNCHANGED <<local, temp, remote, cfgVars, pageVars, clientVars, clock, passVars, state,
                   preloadVars, sync>>

\* ------------------------------------------------------- the environment
\* Time passes (only once the current instant has stamped a file: an instant
\* no file carries is indistinguishable from the next).
Tick ==
    /\ clock < MaxClock
    /\ \E i \in Instances, k \in Keys :
          \/ local[i][k].exists /\ local[i][k].atime = clock
          \/ temp[i][k].exists /\ temp[i][k].atime = clock
    /\ clock' = clock + 1
    /\ UNCHANGED <<local, temp, remote, cfgVars, pageVars, clientVars, pc, passVars,
                   callVars, preloadVars, sync>>

\* A file of local_dir is truncated to zero bytes behind the store's back.
Truncate(i, k) ==
    /\ local[i][k].exists
    /\ local[i][k].size > 0
    /\ local' = [local EXCEPT ![i][k].size = 0]
    /\ UNCHANGED <<temp, remote, cfgVars, pageVars, clientVars, clock, pc, passVars,
                   callVars, preloadVars, sync>>

\* ------------------------------------------------------- the web front end
\* The routes of the app; "/settings" stands for any route AuthProvider guards.
Paths == {"/", "/login", "/settings"}
\* Hero/landing page is public, chat requires auth
PUBLIC_PATHS == {"/", "/login"}
\* The requests that set the store's isLoading: the verify() of AuthProvider's
\* mount effect, the verify() of HomeContent's mount effect, the login form's
\* signup().
Requests == {"provider", "home", "signup"}

\* A full page load of path p (with ?chat=true when c): a fresh store
\* (isAuthenticated false, isLoading true), AuthProvider mounted, HomeContent
\* mounted when p is "/"; their mount effects are due.
PageLoaded(p, c) ==
    /\ isAuthenticated = FALSE
    /\ isLoading = TRUE
    /\ requests = [r \in Requests |->
                      IF r = "provider" \/ (r = "home" /\ p = "/") THEN "due" ELSE "idle"]
    /\ pathname = p
    /\ chatParam = (c /\ p = "/")
    /\ returnTo = FALSE
    /\ showChat = FALSE
    /\ isHydrated = FALSE

\* The router shows path p: HomeContent is unmounted (its state is lost) and,
\* when p is "/", mounted afresh with its verify() due.
Routed(p, c, r) ==
    /\ pathname' = p
    /\ chatParam' = (c /\ p = "/")
    /\ returnTo' = (r /\ p = "/login")
    /\ showChat' = FALSE
    /\ isHydrated' = FALSE
    /\ requests' = [requests EXCEPT !["home"] =
                       IF @ = "sent" THEN "sent"
                       ELSE IF p = "/" THEN "due" ELSE "idle"]

\* React runs the effects of a render before it handles the next event (a
\* click, a response): no mount effect is waiting, and neither HomeContent's
\* hydration effect nor AuthProvider's redirect effect has anything to do.
HydrationDue ==
    /\ pathname = "/"
    /\ \/ ~isHydrated
       \/ isAuthenticated /\ (chatParam \/ (savedShowChat = "true" /\ ~showChat))

RedirectDue ==
    /\ ~isLoading
    /\ \/ ~isAuthenticated /\ pathname \notin PUBLIC_PATHS
       \/ isAuthenticated /\ pathname = "/login"

Settled ==
    /\ \A r \in Requests : requests[r] # "due"
    /\ ~HydrationDue
    /\ ~RedirectDue

\* The user opens or reloads the app at path p.
PageLoad(p, c) ==
    /\ isAuthenticated' = FALSE
    /\ isLoading' = TRUE
    /\ requests' = [r \in Requests |->
                       IF r = "provider" \/ (r = "home" /\ p = "/") THEN "due" ELSE "idle"]
    /\ pathname' = p
    /\ chatParam' = (c /\ p = "/")
    /\ returnTo' = FALSE
    /\ showChat' = FALSE
    /\ isHydrated' = FALSE
    /\ UNCHANGED <<session, savedShowChat, storageVars, clientVars>>

\* A client-side navigation (a link, router.push) to another path.
Navigate(p) ==
    /\ Settled
    /\ p # pathname
    /\ Routed(p, FALSE, FALSE)
    /\ UNCHANGED <<isAuthenticated, isLoading, session, savedShowChat, storageVars, clientVars>>

\* useEffect(() => { verify(); }, [verify]) up to the fetch: setLoading(true)
VerifyStart(r) ==
    /\ r \in {"provider", "home"}
    /\ requests[r] = "due"
    /\ requests' = [requests EXCEPT ![r] = "sent"]
    /\ isLoading' = TRUE
    /\ UNCHANGED <<isAuthenticated, session, pathname, chatParam, returnTo,
                   showChat, isHydrated, savedShowChat, storageVars, clientVars>>

\* verify() after the fetch: setAuthenticated(data.authenticated), or
\* setAuthenticated(false) in the catch; finally setLoading(false)
VerifyDone(r, ok) ==
    /\ r \in {"provider", "home"}
    /\ Settled
    /\ requests[r] = "sent"
    /\ ok \in {session, FALSE}
    /\ requests' = [requests EXCEPT ![r] = "idle"]
    /\ isAuthenticated' = ok
    /\ isLoading' = FALSE
    /\ UNCHANGED <<session, pathname, chatParam, returnTo,
                   showChat, isHydrated, savedShowChat, storageVars, clientVars>>

\* localStorage.setItem(SHOW_CHAT_KEY, showChat.toString())
Persisted(show) == IF show THEN "true" ELSE "false"

\* HomeContent's hydration effect (it runs on mount and when isAuthenticated
\* or the search params change), followed by the effect that persists
\* showChat once isHydrated.
HydrationEffect ==
    /\ HydrationDue
    /\ IF chatParam /\ isAuthenticated
         THEN /\ showChat' = TRUE
              /\ chatParam' = FALSE
         ELSE IF savedShowChat = "true" /\ isAuthenticated
           THEN /\ showChat' = TRUE
                /\ UNCHANGED chatParam
           ELSE UNCHANGED <<showChat, chatParam>>
    /\ isHydrated' = TRUE
    /\ savedShowChat' = Persisted(showChat')
    /\ UNCHANGED <<isAuthenticated, isLoading, session, requests, pathname,
                   returnTo, storageVars, clientVars>>

\* The hero's button: router.push("/login?return=chat") when not
\* authenticated, else setShowChat(true).
handleStartExploring ==
    /\ Settled
    /\ pathname = "/"
    /\ isHydrated
    /\ ~showChat
    /\ IF ~isAuthenticated
         THEN /\ Routed("/login", FALSE, TRUE)
              /\ UNCHANGED savedShowChat
         ELSE /\ showChat' = TRUE
              /\ savedShowChat' = Persisted(TRUE)
              /\ UNCHANGED <<requests, pathname, chatParam, returnTo, isHydrated>>
    /\ UNCHANGED <<isAuthenticated, isLoading, session, storageVars, clientVars>>

\* The chat's back button: setShowChat(false)
handleBackToHero ==
    /\ Settled
    /\ pathname = "/"
    /\ isHydrated
    /\ showChat
    /\ showChat' = FALSE
    /\ savedShowChat' = Persisted(FALSE)
    /\ UNCHANGED <<isAuthenticated, isLoading, session, requests, pathname,
                   chatParam, returnTo, isHydrated, storageVars, clientVars>>

\* The login form's handleSubmit up to the fetch of signup(): setLoading(true)
SignupStart ==
    /\ Settled
    /\ pathname = "/login"
    /\ requests["signup"] = "idle"
    /\ requests' = [requests EXCEPT !["signup"] = "sent"]
    /\ isLoading' = TRUE
    /\ UNCHANGED <<isAuthenticated, session, pathname, chatParam, returnTo,
                   showChat, isHydrated, savedShowChat, storageVars, clientVars>>

\* signup() after the fetch: setAuthenticated(true) when the API accepted the
\* address, finally setLoading(false); then handleSubmit's router.push to
\* "/?chat=true" or "/".
SignupDone(ok) ==
    /\ Settled
    /\ requests["signup"] = "sent"
    /\ isLoading' = FALSE
    /\ IF ok
         THEN /\ isAuthenticated' = TRUE
              /\ session' = TRUE
              /\ IF pathname = "/login"
                   THEN /\ pathname' = "/"
                        /\ chatParam' = returnTo
                        /\ returnTo' = FALSE
                        /\ showChat' = FALSE
                        /\ isHydrated' = FALSE
                        /\ requests' = [requests EXCEPT
                                           !["signup"] = "idle",
                                           !["home"] = IF @ = "sent" THEN "sent" ELSE "due"]
                   ELSE /\ requests' = [requests EXCEPT !["signup"] = "idle"]
                        /\ UNCHANGED <<pathname, chatParam, returnTo, showChat, isHydrated>>
         ELSE /\ requests' = [requests EXCEPT !["signup"] = "idle"]
              /\ UNCHANGED <<isAuthenticated, session, pathname, chatParam,
                             returnTo, showChat, isHydrated>>
    /\ UNCHANGED <<savedShowChat, storageVars, clientVars>>

\* logout(): the POST, then reset() in the finally.
Logout(gone) ==
    /\ Settled
    /\ isAuthenticated
    /\ session' = (session /\ ~gone)
    /\ isAuthenticated' = FALSE
    /\ isLoading' = FALSE
    /\ UNCHANGED <<requests, pathname, chatParam, returnTo,
                   showChat, isHydrated, savedShowChat, storageVars, clientVars>>

\* AuthProvider's redirect effect.
RedirectEffect ==
    /\ RedirectDue
    /\ IF ~isAuthenticated /\ pathname \notin PUBLIC_PATHS
         THEN Routed("/login", FALSE, FALSE)
         ELSE /\ isAuthenticated
              /\ pathname = "/login"
              /\ Routed("/", FALSE, FALSE)
    /\ UNCHANGED <<isAuthenticated, isLoading, session, savedShowChat, storageVars, clientVars>>

\* What AuthProvider returns.
AuthProviderWithoutGate ==
    IF isLoading /\ pathname \notin PUBLIC_PATHS THEN "spinner" ELSE "children"

AuthProvider ==
    IF isLoading /\ pathname \notin PUBLIC_PATHS THEN "spinner"
    ELSE IF ~isAuthenticated /\ pathname \notin PUBLIC_PATHS THEN "null"
    ELSE "children"

\* What HomeContent returns under AuthProvider.
HomeContent ==
    IF pathname # "/" \/ AuthProvider # "children" THEN "none"
    ELSE IF ~isHydrated THEN "loading"
    ELSE IF showChat THEN "chat" ELSE "hero"

\* ------------------------------------ the site-password gate (PasswordGate)
\* Successful logins the login route answers in one run.
MaxLogins == 2

\* What a visitor may type into the password field.
Passwords == {"secret", "guess"}

\* A string handled as a token: a literal text of `length` characters, or the
\* hex digest of sha256(text + at), which has 64 characters.
Literal(text, length) == [kind |-> "literal", text |-> text, at |-> 0, length |-> length]
Sha256Hex(text, at) == [kind |-> "sha256", text |-> text, at |-> at, length |-> 64]

\* localStorage.getItem's null.
Null == [kind |-> "null", text |-> "", at |-> 0, length |-> 0]
NoAuthToken == Literal("no-auth-required", 16)

\* What the browser's localStorage may hold under "pyfia_auth" when the page
\* is opened: nothing, or a string the visitor put there.
VisitorStrings == {Null, NoAuthToken, Literal("ffff...ffff", 64), Literal("x", 1)}

\* JavaScript truthiness of getItem's result: null and "" are falsy.
Truthy(token) == token.kind # "null" /\ token.length > 0

\* POST /api/auth/verify: TRUE is 200 {valid: true}, FALSE is 401.
VerifyRoute(token) ==
    IF sitePassword = "" THEN TRUE
    ELSE IF Truthy(token) /\ token.length = 64 THEN TRUE
    ELSE IF token = NoAuthToken THEN TRUE
    ELSE FALSE

\* POST /api/auth/login at time `now`: the response (ok: status 200) and its token.
LoginRoute(password, now) ==
    IF sitePassword = "" THEN [ok |-> TRUE, token |-> NoAuthToken]
    ELSE IF password = sitePassword
      THEN [ok |-> TRUE, token |-> Sha256Hex(sitePassword, now)]
      ELSE [ok |-> FALSE, token |-> Null]

\* PasswordGate after the page was opened with `token` in localStorage, before
\* its mount effect; SITE_PASSWORD is `password`.
GateLoaded(password, token) ==
    /\ sitePassword = password
    /\ pyfia_auth = token
    /\ gateAuth = "null"
    /\ issued = {}
    /\ lastVerify = [token |-> Null, valid |-> FALSE]
    /\ logins = 0

\* PasswordGate's mount effect with verifyToken: net is "fail" when the fetch
\* throws.
GateMount(net) ==
    /\ gateAuth = "null"
    /\ IF ~Truthy(pyfia_auth)
         THEN /\ net = "ok"
              /\ gateAuth' = "false"
              /\ UNCHANGED <<pyfia_auth, lastVerify>>
         ELSE IF net = "fail"
           THEN /\ gateAuth' = "false"
                /\ UNCHANGED <<pyfia_auth, lastVerify>>
           ELSE /\ lastVerify' = [token |-> pyfia_auth, valid |-> VerifyRoute(pyfia_auth)]
                /\ IF VerifyRoute(pyfia_auth)
                     THEN /\ gateAuth' = "true"
                          /\ UNCHANGED pyfia_auth
                     ELSE /\ pyfia_auth' = Null
                          /\ gateAuth' = "false"
    /\ UNCHANGED <<sitePassword, issued, logins, messages, stored, hydrated,
                   lastSaved, storageVars, pageVars>>

\* PasswordGate's handleSubmit with the login route's answer.
handleSubmit(password) ==
    /\ gateAuth = "false"
    /\ logins < MaxLogins
    /\ logins' = logins + 1
    /\ LET response == LoginRoute(password, logins') IN
         /\ issued' = IF response.ok /\ sitePassword # ""
                        THEN issued \cup {response.token} ELSE issued
         /\ IF response.ok
              THEN /\ pyfia_auth' = response.token
                   /\ gateAuth' = "true"
              ELSE UNCHANGED <<pyfia_auth, gateAuth>>
    /\ UNCHANGED <<sitePassword, lastVerify, messages, stored, hydrated,
                   lastSaved, storageVars, pageVars>>

\* The page is opened again: PasswordGate is mounted afresh; localStorage is
\* as it was left, or holds what the visitor wrote into it.
Visit(token) ==
    /\ gateAuth # "null"
    /\ token \in {pyfia_auth} \cup VisitorStrings
    /\ pyfia_auth' = token
    /\ gateAuth' = "null"
    /\ UNCHANGED <<sitePassword, issued, lastVerify, logins, messages, stored,
                   hydrated, lastSaved, storageVars, pageVars>>

\* What PasswordGate returns.
PasswordGate ==
    IF gateAuth = "null" THEN "loading"
    ELSE IF gateAuth = "false" THEN "form" ELSE "children"

\* ----------------------------- the saved conversation (useConversationStorage)
\* Messages useChat holds besides the ones it was started with.
MaxMsgs == 2

\* A message: createdAt is "Date" (a Date object), "string" or "undefined".
WELCOME_MESSAGE == [id |-> "welcome", role |-> "assistant", createdAt |-> "undefined"]

\* The messages useChat adds: the user's question and the streamed answer,
\* each stamped with new Date().
Sent ==
    {[id |-> "q", role |-> "user", createdAt |-> "Date"],
     [id |-> "a", role |-> "assistant", createdAt |-> "Date"]}

\* A value of localStorage["askfia_conversation"]: no item, a JSON array with
\* its items, a JSON object, or a text that is not JSON.
Item(kind, items) == [kind |-> kind, items |-> items]
NoItem == Item("null", <<>>)
ForeignItems == {NoItem, Item("array", <<>>), Item("object", <<>>), Item("invalid", <<>>)}

\* JSON.stringify of one message: a Date becomes its ISO string.
ToJSON(m) == [m EXCEPT !.createdAt = IF @ = "Date" THEN "string" ELSE @]

\* JSON.stringify(messages)
Stringify(msgs) == Item("array", [i \in 1..Len(msgs) |-> ToJSON(msgs[i])])

\* getInitialMessages(): JSON.parse throws on "invalid"; Array.isArray and
\* length > 0 let only a non-empty array through.
getInitialMessages ==
    IF stored.kind = "array" /\ Len(stored.items) > 0
      THEN stored.items
      ELSE <<WELCOME_MESSAGE>>

\* The item after saveMessages(msgs) on the item `item`; o is "quota" when
\* setItem throws.
saveMessages(item, msgs, isHyd, o) ==
    IF ~isHyd \/ Len(msgs) = 0 THEN item
    ELSE IF o = "ok" THEN Stringify(msgs) ELSE item

\* useForestChat's persist effect on `msgs`, run after the removal of the item
\* when `cleared`.
PersistEffect(msgs, cleared, o) ==
    /\ stored' = saveMessages(IF cleared THEN NoItem ELSE stored, msgs, hydrated', o)
    /\ lastSaved' = IF hydrated' /\ Len(msgs) > 0 THEN msgs
                    ELSE IF cleared THEN <<>> ELSE lastSaved

\* The chat after the page was opened with `item` in localStorage, before the
\* hydration effect.
ChatLoaded(item) ==
    /\ stored = item
    /\ messages = IF item.kind = "array" /\ Len(item.items) > 0
                    THEN item.items ELSE <<WELCOME_MESSAGE>>
    /\ hydrated = FALSE
    /\ lastSaved = <<>>

\* The hydration effect, then the persist effect it triggers.
ChatHydrate(o) ==
    /\ ~hydrated
    /\ hydrated' = TRUE
    /\ UNCHANGED messages
    /\ PersistEffect(messages, FALSE, o)
    /\ UNCHANGED <<sitePassword, pyfia_auth, gateAuth, issued, lastVerify, logins,
                   storageVars, pageVars>>

\* useChat adds a message; the persist effect follows.
ChatAppend(m, o) ==
    /\ hydrated
    /\ Len(messages) <= MaxMsgs
    /\ messages' = Append(messages, m)
    /\ UNCHANGED hydrated
    /\ PersistEffect(messages', FALSE, o)
    /\ UNCHANGED <<sitePassword, pyfia_auth, gateAuth, issued, lastVerify, logins,
                   storageVars, pageVars>>

\* handleNewChat: setMessages([WELCOME_MESSAGE]); clearConversation(); then
\* the persist effect on the new list.
handleNewChat(o) ==
    /\ hydrated
    /\ messages' = <<WELCOME_MESSAGE>>
    /\ UNCHANGED hydrated
    /\ PersistEffect(messages', TRUE, o)
    /\ UNCHANGED <<sitePassword, pyfia_auth, gateAuth, issued, lastVerify, logins,
                   storageVars, pageVars>>

\* The page is opened again: useChat starts from getInitialMessages().
ChatReload ==
    /\ hydrated
    /\ hydrated' = FALSE
    /\ messages' = getInitialMessages
    /\ UNCHANGED <<stored, lastSaved>>
    /\ UNCHANGED <<sitePassword, pyfia_auth, gateAuth, issued, lastVerify, logins,
                   storageVars, pageVars>>

\* A fresh browser on a deployment with a site password.
ClientLoaded ==
    /\ GateLoaded("secret", Null)
    /\ ChatLoaded(NoItem)

\* ------------------------------------------------------ the specifications
\* The objects the build script (build_and_upload) may have left in the bucket.
Prebuilt(S) == [k \in Keys |-> IF k \in S THEN File(ArtifactSize(k), 0) ELSE NoFile]

\* The singleton `storage`, called by every request handler.
Init ==
    /\ InitCommon
    /\ inst = [t \in Threads |-> "storage"]
    /\ \E b \in BOOLEAN : s3_bucket = [i \in Instances |-> b /\ i = "storage"]
    /\ \E q \in 1..MaxQuota : max_local_bytes = [i \in Instances |-> q]
    /\ remote = Prebuilt({})
    /\ PageLoaded("/", FALSE)
    /\ ClientLoaded
    /\ session = FALSE
    /\ savedShowChat = "null"

\* One step of caller t inside get_db_path.
Step(t) ==
    \/ CheckLocal(t)
    \/ Touch(t)
    \/ \E o \in {"hit", "miss", "fail"} : S3Download(t, o)
    \/ FiaStart(t)
    \/ \E o \in {"ok", "notfound", "fail"} : FiaFinish(t, o)
    \/ FiaRename(t)
    \/ EnforceGlob(t)
    \/ EnforceSum(t)
    \/ \E s \in Orders(Range(files[t])) : EnforceSort(t, s)
    \/ EnforceLoop(t)
    \/ Enforced(t)
    \/ \E o \in {"ok", "fail"} : Upload(t, o)

\* What the request handlers of the concurrent runs ask for.
HandlerSpellings == {"nc", "NC", "RI"}

\* Request handlers call the singleton concurrently.
Next ==
    \/ \E t \in Threads :
          \/ \E s \in HandlerSpellings : Call(t, s)
          \/ Step(t)
          \/ Finish(t)
    \/ Tick

Spec == Init /\ [][Next]_vars

\* One caller at a time: every call returns before the next one starts.
SeqNext ==
    \/ \E t \in SeqThreads :
          \/ \E s \in Spellings : Call(t, s)
          \/ Step(t)
          \/ Recall(t)
          \/ Finish(t)
    \/ Tick

SeqSpec == Init /\ [][SeqNext]_vars

\* One caller at a time, and files of local_dir may be truncated.
CorruptNext ==
    \/ \E t \in SeqThreads :
          \/ \E s \in Spellings : Call(t, s)
          \/ Step(t)
          \/ Recall(t)
          \/ Finish(t)
    \/ Tick
    \/ \E k \in Keys : Truncate("storage", k)

CorruptSpec == Init /\ [][CorruptNext]_vars

\* The startup hook: preload, one list after the other.
PreloadRun ==
    \/ \E t \in SeqThreads :
          \/ \E b \in Batches : Preload(t, b)
          \/ PreloadNext(t)
          \/ Step(t)
          \/ PreloadCatch(t)
          \/ Finish(t)
    \/ Tick

PreloadSpec == Init /\ [][PreloadRun]_vars

\* The startup hook on the deployed configuration: a bucket, and room for
\* MaxQuota units.
DeployedInit ==
    /\ InitCommon
    /\ inst = [t \in Threads |-> "storage"]
    /\ s3_bucket = [i \in Instances |-> i = "storage"]
    /\ max_local_bytes = [i \in Instances |-> MaxQuota]
    /\ remote = Prebuilt({})
    /\ PageLoaded("/", FALSE)
    /\ ClientLoaded
    /\ session = FALSE
    /\ savedShowChat = "null"

DeployedSpec == DeployedInit /\ [][PreloadRun]_vars

\* Two instances given the same calls: `storage` without a bucket, `twin`
\* with one.  Caller t1 runs each call on `storage`, then t2 runs it on
\* `twin`, with the DataMart answering both alike.
PairInit ==
    /\ InitCommon
    /\ inst = [t \in Threads |-> IF t = "t1" THEN "storage" ELSE "twin"]
    /\ s3_bucket = [i \in Instances |-> i = "twin"]
    /\ \E q \in 1..MaxQuota : max_local_bytes = [i \in Instances |-> q]
    /\ remote = Prebuilt({})
    /\ PageLoaded("/", FALSE)
    /\ ClientLoaded
    /\ session = FALSE
    /\ savedShowChat = "null"

PairCall(s) ==
    /\ \A t \in Threads : pc[t] = "idle"
    /\ pc' = [t \in Threads |-> "check"]
    /\ state' = [t \in Threads |-> Upper(s)]
    /\ tried' = [t \in Threads |-> <<>>]
    /\ sync' = (local["storage"] = local["twin"] /\ ~remote[Upper(s)].exists)
    /\ UNCHANGED <<local, temp, remote, cfgVars, pageVars, clientVars, clock, passVars, result,
                   preloadVars>>

\* The DataMart's answer to t1, which it repeats to t2.
PairOrigin(t) ==
    IF t = "t2" /\ \E n \in DOMAIN tried["t1"] : tried["t1"][n][1] = "origin"
      THEN {tried["t1"][n][2] : n \in {m \in DOMAIN tried["t1"] : tried["t1"][m][1] = "origin"}}
      ELSE {"ok", "notfound", "fail"}

\* Both directories list equal names in the same order.
PairOrder(t) == CHOOSE s \in SortedByAtime(Self(t), Range(files[t])) : TRUE

PairTurn(t) == t = "t2" => pc["t1"] = "done"

PairFinish ==
    /\ \A t \in Threads : pc[t] = "done"
    /\ pc' = [t \in Threads |-> "idle"]
    /\ state' = [t \in Threads |-> ""]
    /\ tried' = [t \in Threads |-> <<>>]
    /\ result' = [t \in Threads |-> "none"]
    /\ sync' = FALSE
    /\ UNCHANGED <<local, temp, remote, cfgVars, pageVars, clientVars, clock, passVars, preloadVars>>

PairTick ==
    /\ \A t \in Threads : pc[t] = "idle"
    /\ Tick

PairNext ==
    \/ \E s \in Spellings : PairCall(s)
    \/ \E t \in Threads :
          /\ PairTurn(t)
          /\ \/ CheckLocal(t)
             \/ Touch(t)
             \/ \E o \in {"hit", "miss", "fail"} : S3Download(t, o)
             \/ FiaStart(t)
             \/ \E o \in PairOrigin(t) : FiaFinish(t, o)
             \/ FiaRename(t)
             \/ EnforceGlob(t)
             \/ EnforceSum(t)
             \/ EnforceSort(t, PairOrder(t))
             \/ EnforceLoop(t)
             \/ Enforced(t)
             \/ \E o \in {"ok", "fail"} : Upload(t, o)
    \/ PairFinish
    \/ PairTick

PairSpec == PairInit /\ [][PairNext]_vars

\* Two request handlers, one call each, for two different states, run in any
\* interleaving.
DuoCall(t, s) ==
    /\ result[t] = "none"
    /\ \A u \in Threads \ {t} : state[u] # Upper(s)
    /\ Call(t, s)

DuoNext ==
    \/ \E t \in Threads :
          \/ \E s \in Spellings : DuoCall(t, s)
          \/ Step(t)
    \/ Tick

\* The singleton of a restarted process: local_dir is kept across restarts
\* (mkdir with exist_ok), so it is empty or holds the file of an earlier run.
DuoInit ==
    /\ \E S \in {{}, {"RI"}} :
          local = [i \in Instances |->
                     [k \in Keys |-> IF i = "storage" /\ k \in S
                                       THEN File(ArtifactSize(k), 0) ELSE NoFile]]
    /\ temp = [i \in Instances |-> [k \in Keys |-> NoFile]]
    /\ clock = 0
    /\ pc = [t \in Threads |-> "idle"]
    /\ state = [t \in Threads |-> ""]
    /\ files = [t \in Threads |-> <<>>]
    /\ total_size = [t \in Threads |-> 0]
    /\ tried = [t \in Threads |-> <<>>]
    /\ result = [t \in Threads |-> "none"]
    /\ batch = [t \in Threads |-> <<>>]
    /\ todo = [t \in Threads |-> <<>>]
    /\ report = [t \in Threads |-> <<>>]
    /\ sync = FALSE
    /\ inst = [t \in Threads |-> "storage"]
    /\ \E b \in BOOLEAN : s3_bucket = [i \in Instances |-> b /\ i = "storage"]
    /\ \E q \in 1..MaxQuota : max_local_bytes = [i \in Instances |-> q]
    /\ remote = Prebuilt({})
    /\ PageLoaded("/", FALSE)
    /\ ClientLoaded
    /\ session = FALSE
    /\ savedShowChat = "null"

DuoSpec == DuoInit /\ [][DuoNext]_vars

\* One browser tab on the app; the store of DuckDB files is left alone.
PageInit ==
    /\ InitCommon
    /\ inst = [t \in Threads |-> "storage"]
    /\ s3_bucket = [i \in Instances |-> FALSE]
    /\ max_local_bytes = [i \in Instances |-> MaxQuota]
    /\ remote = Prebuilt({})
    /\ \E p \in Paths, c \in BOOLEAN : PageLoaded(p, c)
    /\ ClientLoaded
    /\ session = FALSE
    /\ savedShowChat = "null"

PageNext ==
    \/ \E p \in Paths, c \in BOOLEAN : PageLoad(p, c)
    \/ \E p \in Paths : Navigate(p)
    \/ \E r \in Requests : VerifyStart(r)
    \/ \E r \in Requests, ok \in BOOLEAN : VerifyDone(r, ok)
    \/ HydrationEffect
    \/ handleStartExploring
    \/ handleBackToHero
    \/ SignupStart
    \/ \E ok \in BOOLEAN : SignupDone(ok)
    \/ \E gone \in BOOLEAN : Logout(gone)
    \/ RedirectEffect

PageSpec == PageInit /\ [][PageNext]_vars

\* One browser on the password gate; SITE_PASSWORD is set or not.
GateInit ==
    /\ InitCommon
    /\ inst = [t \in Threads |-> "storage"]
    /\ s3_bucket = [i \in Instances |-> FALSE]
    /\ max_local_bytes = [i \in Instances |-> MaxQuota]
    /\ remote = Prebuilt({})
    /\ PageLoaded("/", FALSE)
    /\ session = FALSE
    /\ savedShowChat = "null"
    /\ \E password \in {"", "secret"}, token \in VisitorStrings :
          GateLoaded(password, token)
    /\ ChatLoaded(NoItem)

GateNext ==
    \/ \E net \in {"ok", "fail"} : GateMount(net)
    \/ \E password \in Passwords : handleSubmit(password)
    \/ \E token \in {pyfia_auth} \cup VisitorStrings : Visit(token)

GateSpec == GateInit /\ [][GateNext]_vars

\* One browser tab on the chat.
ChatInit ==
    /\ InitCommon
    /\ inst = [t \in Threads |-> "storage"]
    /\ s3_bucket = [i \in Instances |-> FALSE]
    /\ max_local_bytes = [i \in Instances |-> MaxQuota]
    /\ remote = Prebuilt({})
    /\ PageLoaded("/", FALSE)
    /\ session = FALSE
    /\ savedShowChat = "null"
    /\ GateLoaded("secret", Null)
    /\ \E item \in ForeignItems : ChatLoaded(item)

ChatNext ==
    \/ \E o \in {"ok", "quota"} : ChatHydrate(o)
    \/ \E m \in Sent, o \in {"ok", "quota"} : ChatAppend(m, o)
    \/ \E o \in {"ok", "quota"} : handleNewChat(o)
    \/ ChatReload

ChatSpec == ChatInit /\ [][ChatNext]_vars

\* ================================================================ claims
\* Helpers of the statements below.
Tier(e) == e[1]
Hit == <<"local", "hit">>
Miss == <<"local", "miss">>
InPass(t) == pc[t] \in {"glob", "sum", "sort", "loop"}

\* The part of tried[t] that belongs to the first call / to the call repeated
\* by Recall.
AgainAt(t) == CHOOSE n \in DOMAIN tried[t] : tried[t][n] = Again
FirstCall(t) ==
    IF Asked(t) THEN SubSeq(tried[t], 1, AgainAt(t) - 1) ELSE tried[t]
SecondCall(t) == SubSeq(tried[t], AgainAt(t) + 1, Len(tried[t]))

\* C1 (single-flight): two callers are never both inside an Origin fetch
\* (pyfia.download) for the same state; the second waits for the first.
C1_SingleFlight ==
    \A a, b \in Threads :
        (a # b /\ pc[a] = "fia_dl" /\ pc[b] = "fia_dl") => state[a] # state[b]

\* C2 (tier order): within one call the first tier consulted is Local; Remote
\* is consulted only right after a Local miss; Origin is contacted only after
\* a Local miss and, with a bucket configured, right after Remote missed or
\* failed; a Local hit is followed by nothing, and a Remote hit by no Origin
\* contact.
C2_Order(t, tr) ==
    /\ tr # <<>> => Tier(tr[1]) = "local"
    /\ \A n \in DOMAIN tr :
          /\ Tier(tr[n]) = "local" => n = 1
          /\ Tier(tr[n]) = "remote" => n = 2 /\ tr[1] = Miss
          /\ Tier(tr[n]) = "origin" =>
                /\ tr[1] = Miss
                /\ IF s3_bucket[Self(t)]
                     THEN n = 3 /\ tr[2] \in {<<"remote", "miss">>, <<"remote", "fail">>}
                     ELSE n = 2
          /\ tr[n] = Hit => Len(tr) = 1
          /\ tr[n] = <<"remote", "hit">> => Len(tr) = 2

C2_TierOrder ==
    \A t \in Threads :
        /\ C2_Order(t, tried[t])
        /\ pc[t] = "s3" /\ s3_bucket[Self(t)] => tried[t] = <<Miss>>
        /\ pc[t] = "fia_dl" =>
              /\ tried[t][1] = Miss
              /\ IF s3_bucket[Self(t)]
                   THEN /\ Len(tried[t]) = 2
                        /\ tried[t][2] \in {<<"remote", "miss">>, <<"remote", "fail">>}
                   ELSE Len(tried[t]) = 1
        /\ pc[t] = "touch" => tried[t] = <<Hit>>

C2_Witness ==
    \E t \in Threads :
        /\ pc[t] = "done"
        /\ result[t] = "path"
        /\ Len(tried[t]) >= 3
        /\ tried[t][2] = <<"remote", "fail">>
        /\ tried[t][3] = <<"origin", "ok">>

\* C3 (idempotent resolution): a call that succeeded and is repeated at once
\* is answered by the Local tier alone: the repeat succeeds and contacts
\* neither Remote nor Origin.
C3_Idempotent ==
    \A t \in Threads :
        (pc[t] = "done" /\ Asked(t)) =>
            /\ result[t] = "path"
            /\ SecondCall(t) = <<Hit>>

\* C4 (quota): the bytes in local_dir exceed max_local_bytes only between a
\* population write and the end of the enforcement pass that follows it.
C4_Quota ==
    Usage("storage") > max_local_bytes["storage"] =>
        \E t \in Threads : InPass(t)

C4_Witness ==
    \E t \in Threads :
        /\ pc[t] = "loop"
        /\ ~OverLimit(t)
        /\ Len(files[t]) < Cardinality(Live("storage")) + 1
        /\ Live("storage") # {}
        /\ Usage("storage") = max_local_bytes["storage"]

\* C5 (the entry just written is never evicted): from the population write
\* to the return of the call, the file of the state asked for is in
\* local_dir; the path returned names an existing file.
C5_WrittenSurvives ==
    \A t \in Threads :
        (\/ InPass(t)
         \/ pc[t] \in {"enforced", "upload"}
         \/ pc[t] = "done" /\ result[t] = "path") => LocalPath(t).exists

C7_Fallthrough ==
    \A t \in Threads :
        (/\ pc[t] = "done"
         /\ Len(FirstCall(t)) >= 2
         /\ FirstCall(t)[2] = <<"remote", "fail">>) =>
            /\ Len(FirstCall(t)) >= 3
            /\ Tier(FirstCall(t)[3]) = "origin"
            /\ ~Asked(t) => (result[t] = "path" <=> FirstCall(t)[3] = <<"origin", "ok">>)
            /\ Asked(t) => result[t] = "path" /\ SecondCall(t) = <<Hit>>

\* The first half of C7 alone: after a failed Remote download the call
\* contacts Origin, and it returns the path exactly when Origin answered.
C7_ReachesOrigin ==
    \A t \in Threads :
        (/\ pc[t] = "done"
         /\ ~Asked(t)
         /\ Len(tried[t]) >= 2
         /\ tried[t][2] = <<"remote", "fail">>) =>
            /\ Len(tried[t]) >= 3
            /\ Tier(tried[t][3]) = "origin"
            /\ result[t] = "path" <=> tried[t][3] = <<"origin", "ok">>

\* C8 (optional Remote tier): run from equal Local tiers, a call on the
\* instance without a bucket contacts no Remote tier, goes from the Local miss
\* straight to Origin, and ends as the same call on an instance whose bucket
\* does not hold the state: same answer, same local_dir.
C8_SameOutcome ==
    (pc["t1"] = "done" /\ pc["t2"] = "done" /\ sync) =>
        /\ result["t1"] = result["t2"]
        /\ local["storage"] = local["twin"]
        /\ \A n \in DOMAIN tried["t1"] : Tier(tried["t1"][n]) \notin {"remote", "upload"}
        /\ tried["t1"][1] = Miss =>
              Len(tried["t1"]) = 2 /\ Tier(tried["t1"][2]) = "origin"

C8_Witness ==
    /\ pc["t1"] = "done"
    /\ pc["t2"] = "done"
    /\ sync
    /\ result["t2"] = "path"
    /\ Len(tried["t2"]) >= 3
    /\ tried["t2"][2] = <<"remote", "miss">>
    /\ tried["t2"][3] = <<"origin", "ok">>
    /\ Cardinality(Live("twin")) >= 2

\* C9 (corrupt entry self-heals): a call that finds a zero-byte file at
\* local_path treats it as a miss: it does not go on to touch and return it.
C9_EmptyIsMiss ==
    [][\A t \in Threads :
          (/\ pc[t] = "check"
           /\ pc'[t] # "check"
           /\ LocalPath(t).exists
           /\ LocalPath(t).size = 0) => pc'[t] # "touch"]_vars

\* C10 (preload tolerates partial failure): preload ends having tried every
\* state of its list; every state whose get_db_path raised is absent from
\* local_dir, and when one state succeeded and all others failed, that state
\* is in local_dir.
Raised(t) == {n \in DOMAIN report[t] : report[t][n][2] = "raised"}
Loaded(t) == {n \in DOMAIN report[t] : report[t][n][2] = "path"}

C10_Preload ==
    \A t \in Threads :
        pc[t] = "preloaded" =>
            /\ Len(report[t]) = Len(batch[t])
            /\ \A n \in DOMAIN batch[t] : report[t][n][1] = Upper(batch[t][n])
            /\ \A n \in Raised(t) : ~local[Self(t)][report[t][n][1]].exists
            /\ Cardinality(Loaded(t)) = 1 =>
                  \A n \in Loaded(t) : local[Self(t)][report[t][n][1]].exists


\* The first half of C10 alone: preload ends having tried every state of its
\* list, and every state whose get_db_path raised is absent from local_dir.
C10_TriesAll ==
    \A t \in Threads :
        pc[t] = "preloaded" =>
            /\ Len(report[t]) = Len(batch[t])
            /\ \A n \in DOMAIN batch[t] : report[t][n][1] = Upper(batch[t][n])
            /\ \A n \in Raised(t) : ~local[Self(t)][report[t][n][1]].exists

\* C11 (no eviction of an entry in use): while a caller stands between its
\* existence check and its return (it was just told its file is there), no
\* step of another caller's enforcement pass removes that file.
C11_InUseKept ==
    [][\A t \in Threads :
          (/\ pc[t] = "touch"
           /\ pc'[t] = "touch"
           /\ LocalPath(t).exists) => local'[Self(t)][state[t]].exists]_vars

Lower(s) ==
    CASE s = "nc" -> "nc"
      [] s = "NC" -> "nc"
      [] s = "RI" -> "ri"
      [] s = "or" -> "or"
      [] s = "OR" -> "or"
      [] OTHER    -> "xx"

\* The element of preload's list the running get_db_path was called with.
Spelling(t) == batch[t][Len(batch[t]) - Len(todo[t])]

C13_OneKey ==
    \A t \in Threads :
        (batch[t] # <<>> /\ state[t] # "") =>
            /\ state[t] \in Keys
            /\ \A s \in Spellings \cup Keys :
                  Lower(s) = Lower(Spelling(t)) => state[t] = Upper(s)

C13_Witness ==
    \E t \in Threads :
        /\ batch[t] # <<>>
        /\ pc[t] = "done"
        /\ Spelling(t) = "nc"
        /\ tried[t] = <<Hit>>
        /\ Live(Self(t)) = {"NC"}

\* C14 (failure only on exhaustion): a call raises exactly when its last
\* contact was an Origin fetch that failed or did not know the state, after a
\* Local miss and, with a bucket configured, a Remote miss or failure; a miss
\* or a failure of Local or Remote alone never reaches the caller.
LastCall(t) == IF Asked(t) THEN SecondCall(t) ELSE tried[t]
OriginFailed(e) == e \in {<<"origin", "fail">>, <<"origin", "notfound">>}

C15_BestEffort ==
    [][\A t \in Threads :
          (pc[t] = "upload" /\ pc'[t] # "upload") =>
              /\ pc'[t] = "done"
              /\ result'[t] = "path"
              /\ local' = local]_vars

C15_Witness ==
    \E t \in Threads :
        /\ pc[t] = "done"
        /\ result[t] = "path"
        /\ LocalPath(t).exists
        /\ tried[t] = <<Miss, <<"remote", "miss">>, <<"origin", "ok">>,
                        <<"upload", "fail">>>>

\* C16 (chat requires authentication): HomeContent has showChat true only
\* while the store's isAuthenticated is true.
C16_ChatNeedsAuth == showChat => isAuthenticated

\* C17 (protected content gating): on a path outside PUBLIC_PATHS AuthProvider
\* renders its children exactly when isLoading is false and isAuthenticated
\* is true; while loading it renders the spinner; when not loading and not
\* authenticated it renders nothing and its effect redirects to /login.
C17_Gate ==
    pathname \notin PUBLIC_PATHS =>
        /\ AuthProvider = "children" <=> (~isLoading /\ isAuthenticated)
        /\ isLoading => AuthProvider = "spinner"
        /\ (~isLoading /\ ~isAuthenticated) =>
              /\ AuthProvider = "null"
              /\ ENABLED RedirectEffect

\* The redirect of the last case alone: a step of the redirect effect on a
\* guarded path ends on /login.
C17_Redirects ==
    [][(pathname \notin PUBLIC_PATHS /\ RedirectEffect) => pathname' = "/login"]_vars

C17_Witness ==
    /\ pathname \notin PUBLIC_PATHS
    /\ AuthProvider = "children"
    /\ session

\* C18 (failure diagnostics): the failure a call hands its caller lists every
\* tier the call tried, in order, each with its outcome.
C18_Diagnostics ==
    \A t \in Threads :
        (pc[t] = "done" /\ result[t] = "raised") => ExceptionOf(t) = LastCall(t)

\* C19 (backfill of the Remote tier): a call satisfied by Origin on an
\* instance with a bucket, whose upload fails only when it is given no file,
\* leaves the state's artifact in the bucket, whatever max_local_bytes is; a
\* call satisfied by Local or by Remote uploads nothing.
ByOrigin(tr) == \E n \in DOMAIN tr : tr[n] = <<"origin", "ok">>
Uploads(tr) == {n \in DOMAIN tr : Tier(tr[n]) = "upload"}
UploadFailed(tr) == \E n \in DOMAIN tr : tr[n] = <<"upload", "fail">>

C19_Backfill ==
    \A t \in Threads :
        (pc[t] = "done" /\ result[t] = "path") =>
            LET tr == LastCall(t) IN
            /\ (/\ ByOrigin(tr)
                /\ s3_bucket[Self(t)]
                /\ UploadFailed(tr) => ~LocalPath(t).exists) =>
                   /\ remote[state[t]].exists
                   /\ remote[state[t]].size = ArtifactSize(state[t])
            /\ ~ByOrigin(tr) => Uploads(tr) = {}

\* C19 for the calls whose file is still in local_dir when the upload runs.
C19_WhenKept ==
    \A t \in Threads :
        (pc[t] = "done" /\ result[t] = "path") =>
            LET tr == LastCall(t) IN
            /\ (/\ ByOrigin(tr)
                /\ s3_bucket[Self(t)]
                /\ LocalPath(t).exists
                /\ ~UploadFailed(tr)) =>
                   /\ remote[state[t]].exists
                   /\ remote[state[t]].size = ArtifactSize(state[t])
            /\ ~ByOrigin(tr) => Uploads(tr) = {}

\* C20 (typed Remote outcomes): two calls whose Remote downloads ended
\* differently (hit, not found, transport failure) were handed different
\* values by _download_from_s3.
RemoteOutcome(t) == tried[t][2][2]
AskedRemote(t) == Len(tried[t]) >= 2 /\ Tier(tried[t][2]) = "remote"

C20_Typed ==
    \A a, b \in Threads :
        (AskedRemote(a) /\ AskedRemote(b) /\ RemoteOutcome(a) # RemoteOutcome(b)) =>
            DownloadFromS3(RemoteOutcome(a)) # DownloadFromS3(RemoteOutcome(b))

\* C21 (cache hygiene never fails a populated call): once the artifact has
\* been written to local_path, the enforcement pass that follows never ends
\* the call with an exception.
C21_HygieneNeverFails ==
    [][\A t \in Threads :
          InPass(t) => ~(pc'[t] = "done" /\ result'[t] = "raised")]_vars

\* C22 (consistent eviction under concurrency): a pass removes a file only
\* while local_dir really is over max_local_bytes (nothing is evicted that
\* need not be), and once no pass is running local_dir is within
\* max_local_bytes.
Evicts(k) == local["storage"][k].exists /\ ~local'["storage"][k].exists
OverQuota == Usage("storage") > max_local_bytes["storage"]

C22_Consistent ==
    [][/\ \A k \in Keys : Evicts(k) => OverQuota
       /\ (\A t \in Threads : ~InPass(t)') => ~OverQuota']_vars

\* C23 (independence of different keys): two calls for different states, run
\* in any interleaving, end as they would one after the other: a call raises
\* only when its Origin fetch failed, and with room for both artifacts (next
\* to the file local_dir may hold from an earlier run) each call that reached
\* a tier which answered returns the path and its file is in local_dir.
BothDone == \A t \in Threads : pc[t] = "done"
Answered(t) ==
    \E n \in DOMAIN tried[t] : tried[t][n] \in {Hit, <<"remote", "hit">>, <<"origin", "ok">>}
RoomForBoth ==
    max_local_bytes["storage"] >=
        ArtifactSize(state["t1"]) + ArtifactSize(state["t2"]) + ArtifactSize("RI")

C23_Independent ==
    BothDone =>
        /\ \A t \in Threads : result[t] = "raised" <=> ~Answered(t)
        /\ RoomForBoth =>
              \A t \in Threads : Answered(t) => LocalPath(t).exists

\* The second half of C23 alone.
C23_RoomForBoth ==
    (BothDone /\ RoomForBoth) =>
        \A t \in Threads :
            /\ result[t] = "raised" <=> ~Answered(t)
            /\ Answered(t) => LocalPath(t).exists

\* C24 (access time refreshed on every hit): the _touch of a Local hit leaves
\* the file with an st_atime later than that of every other file in
\* local_dir; and the st_atime of a file present before and after a step
\* changes only in a step of a call for that very state.
Hits(t) == pc[t] = "touch" /\ pc'[t] = "done"
Acts(t) == pc'[t] # pc[t] \/ files'[t] # files[t]
Restamped(k) ==
    /\ local["storage"][k].exists
    /\ local'["storage"][k].exists
    /\ local'["storage"][k].atime # local["storage"][k].atime

C24_Refreshed ==
    [][/\ \A t \in Threads :
             Hits(t) =>
                \A k \in Live("storage")' \ {state[t]} :
                    local'["storage"][k].atime < local'["storage"][state[t]].atime
       /\ \A k \in Keys :
             Restamped(k) => \E t \in Threads : Acts(t) /\ state[t] = k]_vars

\* C24 with "later than" weakened to "not earlier than".
C24_NotEarlier ==
    [][/\ \A t \in Threads :
             Hits(t) =>
                \A k \in Live("storage")' \ {state[t]} :
                    local'["storage"][k].atime <= local'["storage"][state[t]].atime
       /\ \A k \in Keys :
             Restamped(k) => \E t \in Threads : Acts(t) /\ state[t] = k]_vars

\* C25 (eviction tie-break): among files that share the oldest st_atime the
\* pass removes first the one written into local_dir earliest; so it is never
\* about to remove the file the running call has just written while a file
\* that an earlier call of the same preload left there carries the same
\* st_atime.
LoadedBefore(t) ==
    {report[t][n][1] : n \in {m \in DOMAIN report[t] : report[t][m][2] = "path"}}

C25_TieBreak ==
    \A t \in Threads :
        (/\ pc[t] = "loop"
         /\ OverLimit(t)
         /\ files[t] # <<>>
         /\ Head(files[t]) = state[t]
         /\ LocalPath(t).exists) =>
            \A k \in LoadedBefore(t) \cap Live(Self(t)) :
                local[Self(t)][k].atime # LocalPath(t).atime

\* C26 (backfill does not block the caller): after a successful Origin fetch
\* and its enforcement pass the next thing the call does is return the path;
\* it does not first run the upload to its end.
C26_ReturnsFirst ==
    [][\A t \in Threads :
          (pc[t] = "enforced" /\ FromOrigin(t) /\ pc'[t] # pc[t]) =>
              (pc'[t] = "done" /\ result'[t] = "path")]_vars

\* What the code does instead: a call satisfied by Origin on an instance with
\* a bucket has its upload behind it when it returns.
C26_UploadEndsFirst ==
    \A t \in Threads :
        (pc[t] = "done" /\ result[t] = "path" /\ FromOrigin(t) /\ s3_bucket[Self(t)]) =>
            Tier(tried[t][Len(tried[t])]) = "upload"

\* C27 (a Local hit never fabricates an entry): the hit path, existence check
\* followed by _touch, never creates a file, also when another caller evicts
\* the key between the check and the touch.
C27_HitCreatesNothing ==
    [][\A t \in Threads :
          (pc[t] = "touch" /\ pc'[t] # "touch") =>
              \A k \in Keys :
                  local'[Self(t)][k].exists => local[Self(t)][k].exists]_vars

\* The same for one caller at a time: with nobody between the check and the
\* touch the file is still there and the touch only stamps it.
C27_TouchFindsFile ==
    \A t \in Threads : pc[t] = "touch" => LocalPath(t).exists

\* C28 (the loading flag tracks the requests in flight): isLoading is true
\* whenever a verify or signup request is still waiting for its answer.
C28_LoadingTracks ==
    (\E r \in Requests : requests[r] = "sent") => isLoading

\* The other half, which the store does keep: with no request in flight and
\* none about to be sent after a page load, the flag is down.
C28_IdleNotLoading ==
    (\A r \in Requests : requests[r] \notin {"sent", "due"}) => ~isLoading

\* C29 (site-password tokens): with SITE_PASSWORD configured, /api/auth/verify
\* answers valid only for a token the login route issued for the correct
\* password, and PasswordGate shows its children only after a correct password
\* was entered.
C29_OnlyIssued ==
    sitePassword # "" =>
        /\ lastVerify.valid => lastVerify.token \in issued
        /\ PasswordGate = "children" => issued # {}

\* What the verify route does check: the token is "no-auth-required" or has 64
\* characters.
C29_ShapeOnly ==
    (sitePassword # "" /\ lastVerify.valid) =>
        (lastVerify.token = NoAuthToken \/ lastVerify.token.length = 64)

\* C30 (conversation round trip): getInitialMessages returns the list last
\* given to saveMessages, after hydration and non-empty, since the last
\* clearConversation, and the welcome message alone when there is none.
C30_RoundTrip ==
    getInitialMessages = IF lastSaved # <<>> THEN lastSaved ELSE <<WELCOME_MESSAGE>>

\* The part that does not depend on the save: getInitialMessages is never
\* empty, and is the welcome message alone unless a non-empty array is stored.
C30_NeverEmpty ==
    /\ getInitialMessages # <<>>
    /\ ~(stored.kind = "array" /\ stored.items # <<>>) =>
          getInitialMessages = <<WELCOME_MESSAGE>>

====
